---- MODULE Spec2Model ----
(***************************************************************************)
(* Model of the Excalibur Texture resource (load pipeline, futures,        *)
(* sprite ownership) and of the FrameStats / Debug statistics records.     *)
(*                                                                         *)
(* Texture, its fields and load() are translated from the Texture source   *)
(* file; FrameStats and Debug from src/engine/Debug.ts.  Promise, Resource *)
(* and TextureManager are imported by Texture but are separate files: they *)
(* are modelled from the specification text (future = pending / resolved / *)
(* rejected with single resolution; AsyncResource.load() = one fetch per   *)
(* call that later succeeds or fails; loadIntoAtlas returns a real sprite).*)
(***************************************************************************)
EXTENDS Integers, Sequences, FiniteSets, TLC

\* ------------------------------------------------------------------ bounds

\* Textures constructed in one run.
NumTextures == 2
\* load() calls made in one run, over all Textures.
MaxLoads == 3
\* Natural <<width, height>> of the images the resources decode to: two
\* non-square sizes, so that width and height cannot be taken for each other.
Sizes == {<<1, 2>>, <<2, 1>>}
\* FrameStats instances alive at once (Debug's two slots plus clones).
MaxFrameStats == 3
\* Numbers written through the FrameStats setters range over 0..MaxVal.
MaxVal == 1
\* FrameStats operations (setter writes, resets, clones) in one run.
MaxStatOps == 3
\* Width and height of one atlas surface.
SurfaceSize == 2

\* ------------------------------------------------------------------ values

\* JavaScript values are tagged so that null, undefined, numbers, image
\* objects and error strings stay distinguishable and comparable.
Val(tag, n) == [tag |-> tag, n |-> n]
Null == Val("null", 0)
Undefined == Val("undefined", 0)
Num(n) == Val("num", n)
\* The HTMLImageElement created by the c-th load() call on Texture t.
Img(t, c) == Val("image", 10 * t + c)
\* The rejection value 'Error loading texture.'
ErrorLoadingTexture == Val("error", 0)

\* new ManagedSprite(a, b, c, d, e, f)
ManagedSprite(a, b, c, d, e, f) == <<a, b, c, d, e, f>>

\* The sprite the Texture constructor creates: every field null.
PlaceholderSprite == ManagedSprite(Null, Null, Null, Null, Null, Null)

\* new Promise(): a pending future.
NewPromise == [state |-> "pending", value |-> Undefined]

\* ------------------------------------------------------------------ state

VARIABLES
    path,          \* per Texture: "data" (image data-URI) or "net" (anything else)
    naturalSize,   \* per Texture: <<w, h>> its resource decodes to (environment)
    width,         \* Texture.width
    height,        \* Texture.height
    isLoadedFlag,  \* Texture._isLoaded
    sprite,        \* Texture._sprite
    loaded,        \* Texture.loaded
    image,         \* Texture.image
    calls,         \* per Texture: one record per load() call made so far
    decoded,       \* images whose decode-complete ('load') event has fired
    atlas,         \* Texture.manager: what loadIntoAtlas has been given, in order
    fsCount,       \* FrameStats instances constructed so far
    fsBase,        \* per FrameStats: _id, _delta, _fps, _actorStats, _durationStats
    actorObjs,     \* the object literals behind _actorStats
    durationObjs,  \* the object literals behind _durationStats
    statOps,       \* FrameStats operations performed so far
    lastStat       \* the FrameStats operation performed last

texVars == <<path, naturalSize, width, height, isLoadedFlag, sprite, loaded,
             image, calls, decoded, atlas>>
statVars == <<fsCount, fsBase, actorObjs, durationObjs, statOps, lastStat>>
vars == <<path, naturalSize, width, height, isLoadedFlag, sprite, loaded,
          image, calls, decoded, atlas,
          fsCount, fsBase, actorObjs, durationObjs, statOps, lastStat>>

Textures == 1..Len(path)
Calls(t) == 1..Len(calls[t])
\* Every load() call made so far, as <<texture, call>>.
AllCalls == {tc \in Textures \X (1..MaxLoads) : tc[2] <= Len(calls[tc[1]])}

\* ------------------------------------------------------------------ futures

\* Promise.resolve / Promise.reject on a pending future.  A future settles
\* once: settling a future that is not pending is an error raised in the
\* caller (Settled is the test), never a silent overwrite.
Settled(p) == p.state # "pending"
Resolve(p, v) == [state |-> "resolved", value |-> v]
Reject(p, v) == [state |-> "rejected", value |-> v]

\* ------------------------------------------------------------------ Texture

\* Texture.isLoaded()
isLoaded(t) == isLoadedFlag[t]

\* Texture.asSprite()
asSprite(t) == sprite[t]

\* HTMLImageElement.naturalWidth / naturalHeight of image object `img` of
\* Texture t, given the set `dec` of decoded images: 0 until its decode
\* has completed.
NaturalWidth(t, img, dec) == IF img \in dec THEN naturalSize[t][1] ELSE 0
NaturalHeight(t, img, dec) == IF img \in dec THEN naturalSize[t][2] ELSE 0

\* ------------------------------------------------------------------ atlas

\* An AtlasSurface is a sequence of shelves, stacked from y = 0; a shelf
\* [y, h, used] is h high and filled from x = 0 up to `used`.
NewSurface == <<>>

\* The height already taken by the shelves of a surface.
ShelfTop(surface) ==
    IF surface = <<>> THEN 0 ELSE surface[Len(surface)].y + surface[Len(surface)].h

\* The shelves of a surface that can take a w x h block.
FittingShelves(surface, w, h) ==
    {i \in 1..Len(surface) :
        h <= surface[i].h /\ surface[i].used + w <= SurfaceSize}

\* tryReserve with the fitted shelf not advanced: the block is placed at the
\* shelf's left end.
TryReserveNoAdvance(surface, w, h) ==
    LET fit == FittingShelves(surface, w, h) IN
    IF fit # {}
    THEN LET i == CHOOSE k \in fit : \A j \in fit : k <= j IN
         [ok |-> TRUE, x |-> 0, y |-> surface[i].y, surface |-> surface]
    ELSE IF w <= SurfaceSize /\ ShelfTop(surface) + h <= SurfaceSize
    THEN [ok |-> TRUE, x |-> 0, y |-> ShelfTop(surface),
          surface |-> Append(surface, [y |-> ShelfTop(surface), h |-> h, used |-> w])]
    ELSE [ok |-> FALSE, x |-> 0, y |-> 0, surface |-> surface]

\* AtlasSurface.tryReserve(width, height): the first shelf with room, else a
\* new shelf on top when the surface has the height left, else failure.
TryReserve(surface, w, h) ==
    LET fit == FittingShelves(surface, w, h) IN
    IF fit # {}
    THEN LET i == CHOOSE k \in fit : \A j \in fit : k <= j IN
         [ok |-> TRUE, x |-> surface[i].used, y |-> surface[i].y,
          surface |-> [surface EXCEPT ![i].used = @ + w]]
    ELSE IF w <= SurfaceSize /\ ShelfTop(surface) + h <= SurfaceSize
    THEN [ok |-> TRUE, x |-> 0, y |-> ShelfTop(surface),
          surface |-> Append(surface, [y |-> ShelfTop(surface), h |-> h, used |-> w])]
    ELSE [ok |-> FALSE, x |-> 0, y |-> 0, surface |-> surface]

\* First fit over the surfaces in creation order, from surface k on; a new
\* surface when all fail.  Yields the surfaces afterwards and the Placement.
RECURSIVE ReserveFrom(_, _, _, _)
ReserveFrom(surfaces, k, w, h) ==
    IF k > Len(surfaces)
    THEN LET r == TryReserve(NewSurface, w, h) IN
         [surfaces |-> Append(surfaces, r.surface),
          region |-> [surface |-> k, x |-> r.x, y |-> r.y, w |-> w, h |-> h]]
    ELSE LET r == TryReserve(surfaces[k], w, h) IN
         IF r.ok
         THEN [surfaces |-> [surfaces EXCEPT ![k] = r.surface],
               region |-> [surface |-> k, x |-> r.x, y |-> r.y, w |-> w, h |-> h]]
         ELSE ReserveFrom(surfaces, k + 1, w, h)

\* The manager's packing of one w x h image: an image larger than a surface
\* is left unpacked (surface 0, nothing reserved).
Pack(surfaces, w, h) ==
    IF w > SurfaceSize \/ h > SurfaceSize
    THEN [surfaces |-> surfaces,
          region |-> [surface |-> 0, x |-> 0, y |-> 0, w |-> w, h |-> h]]
    ELSE ReserveFrom(surfaces, 1, w, h)

\* The manager after the loadIntoAtlas calls of `log`, in order: its surfaces
\* and the region each call was given.
RECURSIVE ManagerAfter(_)
ManagerAfter(log) ==
    IF log = <<>>
    THEN [surfaces |-> <<>>, regions |-> <<>>]
    ELSE LET before == ManagerAfter(SubSeq(log, 1, Len(log) - 1))
             last == log[Len(log)]
             packed == Pack(before.surfaces, last.width.n, last.height.n)
         IN  [surfaces |-> packed.surfaces,
              regions |-> Append(before.regions, packed.region)]

\* TextureManager.loadIntoAtlas(texture): the sprite handed back for the
\* Texture's current image and size, packed (surface, origin, size) or
\* unpacked (no surface).
LoadIntoAtlas(img, w, h) ==
    LET r == Pack(ManagerAfter(atlas).surfaces, w.n, h.n).region IN
    ManagedSprite(img, IF r.surface = 0 THEN Null ELSE Num(r.surface),
                  Num(r.x), Num(r.y), w, h)

\* new Texture(path, bustCache): every field as the declarations and the
\* constructor body leave it.  kind tells whether path contains
\* 'data:image/'; size is the <<w, h>> the resource at path decodes to.
TextureConstructor(kind, size) ==
    /\ Len(path) < NumTextures
    /\ path' = Append(path, kind)
    /\ naturalSize' = Append(naturalSize, size)
    /\ width' = Append(width, Undefined)
    /\ height' = Append(height, Undefined)
    /\ isLoadedFlag' = Append(isLoadedFlag, FALSE)
    /\ sprite' = Append(sprite, PlaceholderSprite)
    /\ loaded' = Append(loaded, NewPromise)
    /\ image' = Append(image, Undefined)
    /\ calls' = Append(calls, <<>>)
    /\ UNCHANGED <<decoded, atlas>>
    /\ UNCHANGED statVars

\* load() with the data-URI branch packing its image at once, before the
\* decode, instead of in the 'load' listener.
LoadPacksAtCall(t) ==
    /\ Cardinality(AllCalls) < MaxLoads
    /\ LET c == Len(calls[t]) + 1 IN
       IF path[t] = "data"
       THEN /\ image' = [image EXCEPT ![t] = Img(t, c)]
            /\ calls' = [calls EXCEPT ![t] =
                           Append(@, [pc |-> "decoding", complete |-> NewPromise])]
            /\ sprite' = [sprite EXCEPT ![t] = LoadIntoAtlas(Img(t, c), Num(0), Num(0))]
            /\ atlas' = Append(atlas, [tex |-> t, image |-> Img(t, c),
                                       width |-> Num(0), height |-> Num(0)])
       ELSE /\ image' = image
            /\ calls' = [calls EXCEPT ![t] =
                           Append(@, [pc |-> "fetching", complete |-> NewPromise])]
            /\ UNCHANGED <<sprite, atlas>>
    /\ UNCHANGED <<path, naturalSize, width, height, isLoadedFlag,
                   loaded, decoded>>
    /\ UNCHANGED statVars

\* load() that marks the Texture as not loaded while the new load is under
\* way.
LoadResetsIsLoaded(t) ==
    /\ Cardinality(AllCalls) < MaxLoads
    /\ LET c == Len(calls[t]) + 1 IN
       IF path[t] = "data"
       THEN /\ image' = [image EXCEPT ![t] = Img(t, c)]
            /\ calls' = [calls EXCEPT ![t] =
                           Append(@, [pc |-> "decoding", complete |-> NewPromise])]
       ELSE /\ image' = image
            /\ calls' = [calls EXCEPT ![t] =
                           Append(@, [pc |-> "fetching", complete |-> NewPromise])]
    /\ isLoadedFlag' = [isLoadedFlag EXCEPT ![t] = FALSE]
    /\ UNCHANGED <<path, naturalSize, width, height, sprite,
                   loaded, decoded, atlas>>
    /\ UNCHANGED statVars

\* Texture.load(), up to its return: a fresh `complete` future; the data-URI
\* branch creates the image and starts its decode, the other branch starts
\* a fetch (super.load()) and registers the two callbacks.
Load(t) ==
    /\ Cardinality(AllCalls) < MaxLoads
    /\ LET c == Len(calls[t]) + 1 IN
       IF path[t] = "data"
       THEN /\ image' = [image EXCEPT ![t] = Img(t, c)]
            /\ calls' = [calls EXCEPT ![t] =
                           Append(@, [pc |-> "decoding", complete |-> NewPromise])]
       ELSE /\ image' = image
            /\ calls' = [calls EXCEPT ![t] =
                           Append(@, [pc |-> "fetching", complete |-> NewPromise])]
    /\ UNCHANGED <<path, naturalSize, width, height, isLoadedFlag, sprite,
                   loaded, decoded, atlas>>
    /\ UNCHANGED statVars

\* FetchSucceeded with the sprite obtained as soon as the data has arrived,
\* before the image is decoded.
FetchSucceededPacksEarly(t, c) ==
    /\ path[t] = "net"
    /\ calls[t][c].pc = "fetching"
    /\ image' = [image EXCEPT ![t] = Img(t, c)]
    /\ calls' = [calls EXCEPT ![t][c].pc = "decoding"]
    /\ sprite' = [sprite EXCEPT ![t] =
                    LoadIntoAtlas(Img(t, c), Num(0), Num(0))]
    /\ UNCHANGED <<path, naturalSize, width, height, isLoadedFlag,
                   loaded, decoded, atlas>>
    /\ UNCHANGED statVars

\* FetchSucceeded with the two callbacks of then() taken for each other: the
\* future is rejected although the fetch succeeded.
FetchSucceededRejects(t, c) ==
    /\ path[t] = "net"
    /\ calls[t][c].pc = "fetching"
    /\ image' = [image EXCEPT ![t] = Img(t, c)]
    /\ calls' = [calls EXCEPT ![t][c] =
                   [pc |-> "decoding",
                    complete |-> Reject(@.complete, ErrorLoadingTexture)]]
    /\ UNCHANGED <<path, naturalSize, width, height, isLoadedFlag, sprite,
                   loaded, decoded, atlas>>
    /\ UNCHANGED statVars

\* The success callback of super.load(): a new image whose source is the
\* fetched data; its decode is now pending.
FetchSucceeded(t, c) ==
    /\ path[t] = "net"
    /\ calls[t][c].pc = "fetching"
    /\ image' = [image EXCEPT ![t] = Img(t, c)]
    /\ calls' = [calls EXCEPT ![t][c].pc = "decoding"]
    /\ UNCHANGED <<path, naturalSize, width, height, isLoadedFlag, sprite,
                   loaded, decoded, atlas>>
    /\ UNCHANGED statVars

\* FetchFailed with the rejection forgotten: `complete` stays pending.
FetchFailedNoReject(t, c) ==
    /\ path[t] = "net"
    /\ calls[t][c].pc = "fetching"
    /\ calls' = [calls EXCEPT ![t][c].pc = "failed"]
    /\ UNCHANGED <<path, naturalSize, width, height, isLoadedFlag, sprite,
                   loaded, image, decoded, atlas>>
    /\ UNCHANGED statVars

\* The failure callback of super.load(): complete.reject('Error loading texture.')
FetchFailed(t, c) ==
    /\ path[t] = "net"
    /\ calls[t][c].pc = "fetching"
    /\ calls' = [calls EXCEPT ![t][c] =
                   [pc |-> "failed",
                    complete |-> Reject(@.complete, ErrorLoadingTexture)]]
    /\ UNCHANGED <<path, naturalSize, width, height, isLoadedFlag, sprite,
                   loaded, image, decoded, atlas>>
    /\ UNCHANGED statVars

\* The end of both 'load' listeners: this.loaded.resolve(this.image), then
\* complete.resolve(this.image).  When `loaded` is already settled the first
\* call raises and the listener ends there, `complete` left pending.
ResolveBoth(t, c) ==
    IF Settled(loaded[t])
    THEN /\ loaded' = loaded
         /\ calls' = [calls EXCEPT ![t][c].pc = "threw"]
    ELSE /\ loaded' = [loaded EXCEPT ![t] = Resolve(@, image[t])]
         /\ calls' = [calls EXCEPT ![t][c] =
                        [pc |-> "done", complete |-> Resolve(@.complete, image[t])]]

\* The 'load' listener of the data-URI branch, run when the image created
\* by call c has been decoded.  this.image is the Texture's current image.
DataDecodeComplete(t, c) ==
    /\ path[t] = "data"
    /\ calls[t][c].pc = "decoding"
    /\ decoded' = decoded \cup {Img(t, c)}
    /\ width' = [width EXCEPT ![t] = Num(NaturalWidth(t, image[t], decoded'))]
    /\ height' = [height EXCEPT ![t] = Num(NaturalHeight(t, image[t], decoded'))]
    /\ sprite' = [sprite EXCEPT ![t] =
                    LoadIntoAtlas(image[t], width'[t], height'[t])]
    /\ atlas' = Append(atlas, [tex |-> t, image |-> image[t],
                               width |-> width'[t], height |-> height'[t]])
    /\ ResolveBoth(t, c)
    /\ UNCHANGED <<path, naturalSize, isLoadedFlag, image>>
    /\ UNCHANGED statVars

\* The 'load' listener of the fetched branch with _isLoaded held once for all
\* Textures (a static field) instead of per instance.
NetDecodeCompleteStatic(t, c) ==
    /\ path[t] = "net"
    /\ calls[t][c].pc = "decoding"
    /\ decoded' = decoded \cup {Img(t, c)}
    /\ isLoadedFlag' = [u \in Textures |-> TRUE]
    /\ width' = [width EXCEPT ![t] = Num(NaturalWidth(t, image[t], decoded'))]
    /\ height' = [height EXCEPT ![t] = Num(NaturalHeight(t, image[t], decoded'))]
    /\ ResolveBoth(t, c)
    /\ UNCHANGED <<path, naturalSize, sprite, image, atlas>>
    /\ UNCHANGED statVars

\* The 'load' listener of the network branch.
NetDecodeComplete(t, c) ==
    /\ path[t] = "net"
    /\ calls[t][c].pc = "decoding"
    /\ decoded' = decoded \cup {Img(t, c)}
    /\ isLoadedFlag' = [isLoadedFlag EXCEPT ![t] = TRUE]
    /\ width' = [width EXCEPT ![t] = Num(NaturalWidth(t, image[t], decoded'))]
    /\ height' = [height EXCEPT ![t] = Num(NaturalHeight(t, image[t], decoded'))]
    /\ ResolveBoth(t, c)
    /\ UNCHANGED <<path, naturalSize, sprite, image, atlas>>
    /\ UNCHANGED statVars

\* ------------------------------------------------------------------ FrameStats

FrameStatsIds == 1..fsCount
Values == 0..MaxVal

\* Debug.stats: the two slots a Debug instance is constructed with.
currFrame == 1
prevFrame == 2

\* The property initialisers of a new FrameStats: _id, _delta, _fps zero and
\* two fresh object literals, referenced from _actorStats and _durationStats.
NewFrameStatsBase(ref) ==
    [id |-> 0, delta |-> 0, fps |-> 0, actorStats |-> ref, durationStats |-> ref]
NewActorStats == [alive |-> 0, killed |-> 0, ui |-> 0]
NewDurationStats == [update |-> 0, draw |-> 0]

\* FrameStats.actors / FrameStats.duration: the nested records, by reference.
actors(a) == fsBase[a].actorStats
duration(a) == fsBase[a].durationStats

\* get total() with the killed actors left in: alive + ui.
get_actors_total_NoKilled(objs, r) == objs[r].alive + objs[r].ui

\* get remaining() / get total() of the _actorStats literal r, evaluated in
\* the heap `objs`.
get_remaining(objs, r) == objs[r].alive - objs[r].killed
get_actors_total(objs, r) == get_remaining(objs, r) + objs[r].ui

\* get total() of the _durationStats literal r.
get_duration_total(objs, r) == objs[r].update + objs[r].draw

\* reset(otherStats) taking over the other instance's nested records instead
\* of copying their fields.
ResetCopyAliases(fb, ao, du, a, o) ==
    << [fb EXCEPT ![a].id = fb[o].id, ![a].delta = fb[o].delta, ![a].fps = fb[o].fps,
                  ![a].actorStats = fb[o].actorStats,
                  ![a].durationStats = fb[o].durationStats],
       ao, du >>

\* What FrameStats.reset(otherStats) assigns when otherStats is given: the
\* three setters and the five writes through this.actors / this.duration.
\* Yields the new <<fsBase, actorObjs, durationObjs>>.
ResetCopy(fb, ao, du, a, o) ==
    << [fb EXCEPT ![a].id = fb[o].id, ![a].delta = fb[o].delta, ![a].fps = fb[o].fps],
       [ao EXCEPT ![fb[a].actorStats] =
           [alive |-> ao[fb[o].actorStats].alive,
            killed |-> ao[fb[o].actorStats].killed,
            ui |-> ao[fb[o].actorStats].ui]],
       [du EXCEPT ![fb[a].durationStats] =
           [update |-> du[fb[o].durationStats].update,
            draw |-> du[fb[o].durationStats].draw]] >>

\* reset() that forgets actors.ui.
ResetZeroKeepsUi(fb, ao, du, a) ==
    << [fb EXCEPT ![a].id = 0, ![a].delta = 0, ![a].fps = 0],
       [ao EXCEPT ![fb[a].actorStats] = [alive |-> 0, killed |-> 0, ui |-> @.ui]],
       [du EXCEPT ![fb[a].durationStats] = [update |-> 0, draw |-> 0]] >>

\* What FrameStats.reset() assigns when no argument is given.
ResetZero(fb, ao, du, a) ==
    << [fb EXCEPT ![a].id = 0, ![a].delta = 0, ![a].fps = 0],
       [ao EXCEPT ![fb[a].actorStats] = [alive |-> 0, killed |-> 0, ui |-> 0]],
       [du EXCEPT ![fb[a].durationStats] = [update |-> 0, draw |-> 0]] >>

\* The eight base fields of FrameStats a as its getters read them.
BaseFieldsIn(fb, ao, du, a) ==
    [id |-> fb[a].id, delta |-> fb[a].delta, fps |-> fb[a].fps,
     alive |-> ao[fb[a].actorStats].alive,
     killed |-> ao[fb[a].actorStats].killed,
     ui |-> ao[fb[a].actorStats].ui,
     update |-> du[fb[a].durationStats].update,
     draw |-> du[fb[a].durationStats].draw]
BaseFields(a) == BaseFieldsIn(fsBase, actorObjs, durationObjs, a)

\* The three derived values of FrameStats a as its getters read them.
DerivedFieldsIn(fb, ao, du, a) ==
    [remaining |-> get_remaining(ao, fb[a].actorStats),
     actorsTotal |-> get_actors_total(ao, fb[a].actorStats),
     durationTotal |-> get_duration_total(du, fb[a].durationStats)]
DerivedFields(a) == DerivedFieldsIn(fsBase, actorObjs, durationObjs, a)

\* Bookkeeping shared by the FrameStats operations: one more operation done,
\* and which one (op, receiver, argument, receiver's base fields before it).
StatStep(op, a, o) ==
    /\ statOps < MaxStatOps
    /\ statOps' = statOps + 1
    /\ lastStat' = [op |-> op, target |-> a, other |-> o,
                    pre |-> IF a \in FrameStatsIds THEN BaseFields(a)
                            ELSE BaseFieldsIn(<<NewFrameStatsBase(1)>>,
                                              <<NewActorStats>>, <<NewDurationStats>>, 1)]

\* set id / set delta / set fps
SetId(a, v) ==
    /\ StatStep("set", a, 0)
    /\ fsBase' = [fsBase EXCEPT ![a].id = v]
    /\ UNCHANGED <<fsCount, actorObjs, durationObjs>>
    /\ UNCHANGED texVars

SetDelta(a, v) ==
    /\ StatStep("set", a, 0)
    /\ fsBase' = [fsBase EXCEPT ![a].delta = v]
    /\ UNCHANGED <<fsCount, actorObjs, durationObjs>>
    /\ UNCHANGED texVars

SetFps(a, v) ==
    /\ StatStep("set", a, 0)
    /\ fsBase' = [fsBase EXCEPT ![a].fps = v]
    /\ UNCHANGED <<fsCount, actorObjs, durationObjs>>
    /\ UNCHANGED texVars

\* a.actors.alive = v, a.actors.killed = v, a.actors.ui = v: plain data
\* properties of the _actorStats literal.
SetAlive(a, v) ==
    /\ StatStep("set", a, 0)
    /\ actorObjs' = [actorObjs EXCEPT ![actors(a)].alive = v]
    /\ UNCHANGED <<fsCount, fsBase, durationObjs>>
    /\ UNCHANGED texVars

SetKilled(a, v) ==
    /\ StatStep("set", a, 0)
    /\ actorObjs' = [actorObjs EXCEPT ![actors(a)].killed = v]
    /\ UNCHANGED <<fsCount, fsBase, durationObjs>>
    /\ UNCHANGED texVars

SetUi(a, v) ==
    /\ StatStep("set", a, 0)
    /\ actorObjs' = [actorObjs EXCEPT ![actors(a)].ui = v]
    /\ UNCHANGED <<fsCount, fsBase, durationObjs>>
    /\ UNCHANGED texVars

\* a.duration.update = v, a.duration.draw = v
SetUpdate(a, v) ==
    /\ StatStep("set", a, 0)
    /\ durationObjs' = [durationObjs EXCEPT ![duration(a)].update = v]
    /\ UNCHANGED <<fsCount, fsBase, actorObjs>>
    /\ UNCHANGED texVars

SetDraw(a, v) ==
    /\ StatStep("set", a, 0)
    /\ durationObjs' = [durationObjs EXCEPT ![duration(a)].draw = v]
    /\ UNCHANGED <<fsCount, fsBase, actorObjs>>
    /\ UNCHANGED texVars

\* An assignment to actors.remaining, actors.total or duration.total: these
\* are accessors with a getter only, so nothing is stored.
SetDerived(a, v) ==
    /\ StatStep("setDerived", a, 0)
    /\ UNCHANGED <<fsCount, fsBase, actorObjs, durationObjs>>
    /\ UNCHANGED texVars

\* a.reset()
Reset(a) ==
    /\ StatStep("reset", a, 0)
    /\ LET heap == ResetZero(fsBase, actorObjs, durationObjs, a) IN
         /\ fsBase' = heap[1]
         /\ actorObjs' = heap[2]
         /\ durationObjs' = heap[3]
    /\ UNCHANGED fsCount
    /\ UNCHANGED texVars

\* a.reset(o)
ResetOther(a, o) ==
    /\ StatStep("resetOther", a, o)
    /\ LET heap == ResetCopy(fsBase, actorObjs, durationObjs, a, o) IN
         /\ fsBase' = heap[1]
         /\ actorObjs' = heap[2]
         /\ durationObjs' = heap[3]
    /\ UNCHANGED fsCount
    /\ UNCHANGED texVars

\* clone() as a shallow copy: the new instance copies _id, _delta, _fps and
\* shares the receiver's _actorStats and _durationStats literals.
CloneHeapShallow(fb, ao, du, a, n) ==
    << Append(fb, [id |-> fb[a].id, delta |-> fb[a].delta, fps |-> fb[a].fps,
                   actorStats |-> fb[a].actorStats,
                   durationStats |-> fb[a].durationStats]),
       Append(ao, NewActorStats), Append(du, NewDurationStats) >>

\* The heap after a.clone(): var fs = new FrameStats(); fs.reset(this).
\* The new instance is n.  Yields the new <<fsBase, actorObjs, durationObjs>>.
CloneHeap(fb, ao, du, a, n) ==
    ResetCopy(Append(fb, NewFrameStatsBase(n)), Append(ao, NewActorStats),
              Append(du, NewDurationStats), n, a)

\* a.clone(): the instance returned is fsCount + 1.
Clone(a) ==
    /\ fsCount < MaxFrameStats
    /\ StatStep("clone", fsCount + 1, a)
    /\ fsCount' = fsCount + 1
    /\ LET heap == CloneHeap(fsBase, actorObjs, durationObjs, a, fsCount + 1) IN
         /\ fsBase' = heap[1]
         /\ actorObjs' = heap[2]
         /\ durationObjs' = heap[3]
    /\ UNCHANGED texVars

\* ------------------------------------------------------------------ specifications

\* Debug.stats with prevFrame built on currFrame's nested records, as if the
\* _actorStats / _durationStats literals were shared between instances.
DebugStatsShared == <<NewFrameStatsBase(currFrame), NewFrameStatsBase(currFrame)>>

\* Debug.stats = { currFrame: new FrameStats(), prevFrame: new FrameStats() }
DebugStats == <<NewFrameStatsBase(currFrame), NewFrameStatsBase(prevFrame)>>

\* No Texture constructed yet; one Debug instance, whose stats holds two
\* new FrameStats.
Init ==
    /\ path = <<>>
    /\ naturalSize = <<>>
    /\ width = <<>>
    /\ height = <<>>
    /\ isLoadedFlag = <<>>
    /\ sprite = <<>>
    /\ loaded = <<>>
    /\ image = <<>>
    /\ calls = <<>>
    /\ decoded = {}
    /\ atlas = <<>>
    /\ fsCount = 2
    /\ fsBase = DebugStats
    /\ actorObjs = <<NewActorStats, NewActorStats>>
    /\ durationObjs = <<NewDurationStats, NewDurationStats>>
    /\ statOps = 0
    /\ lastStat = [op |-> "new", target |-> 0, other |-> 0,
                   pre |-> BaseFieldsIn(<<NewFrameStatsBase(1)>>,
                                        <<NewActorStats>>, <<NewDurationStats>>, 1)]

\* The Texture load pipeline: constructions, load() calls and the events the
\* host delivers, one handler at a time.
Next ==
    \/ \E kind \in {"data", "net"}, size \in Sizes : TextureConstructor(kind, size)
    \/ \E t \in Textures : Load(t)
    \/ \E t \in Textures : \E c \in Calls(t) : FetchSucceeded(t, c)
    \/ \E t \in Textures : \E c \in Calls(t) : FetchFailed(t, c)
    \/ \E t \in Textures : \E c \in Calls(t) : DataDecodeComplete(t, c)
    \/ \E t \in Textures : \E c \in Calls(t) : NetDecodeComplete(t, c)

Spec == Init /\ [][Next]_vars

\* The FrameStats operations, on any instance constructed so far.
NextStats ==
    \/ \E a \in FrameStatsIds, v \in Values : SetId(a, v)
    \/ \E a \in FrameStatsIds, v \in Values : SetDelta(a, v)
    \/ \E a \in FrameStatsIds, v \in Values : SetFps(a, v)
    \/ \E a \in FrameStatsIds, v \in Values : SetAlive(a, v)
    \/ \E a \in FrameStatsIds, v \in Values : SetKilled(a, v)
    \/ \E a \in FrameStatsIds, v \in Values : SetUi(a, v)
    \/ \E a \in FrameStatsIds, v \in Values : SetUpdate(a, v)
    \/ \E a \in FrameStatsIds, v \in Values : SetDraw(a, v)
    \/ \E a \in FrameStatsIds, v \in Values : SetDerived(a, v)
    \/ \E a \in FrameStatsIds : Reset(a)
    \/ \E a \in FrameStatsIds, o \in FrameStatsIds : ResetOther(a, o)
    \/ \E a \in FrameStatsIds : Clone(a)

SpecStats == Init /\ [][NextStats]_vars

\* ------------------------------------------------------------------ Texture properties

\* The decode-complete event of call c on Texture t has been handled.
DecodeHandled(t, c) == calls[t][c].pc \in {"done", "threw"}

\* The future returned by the c-th load() call on Texture t.
complete(t, c) == calls[t][c].complete

\* width and height hold the natural size of the Texture's image.
SizeIsNatural(t) ==
    /\ width[t] = Num(naturalSize[t][1])
    /\ height[t] = Num(naturalSize[t][2])

\* C1: for a Texture whose path is an image data-URI, once load() has been
\* called and the decode-complete event of its image has been handled,
\* isLoaded() is true, width and height are the image's natural size and
\* `loaded` is resolved with that image.
C1_DataUriLoaded ==
    \A t \in Textures : \A c \in Calls(t) :
        (path[t] = "data" /\ calls[t][c].pc = "done") =>
            /\ isLoaded(t)
            /\ SizeIsNatural(t)
            /\ loaded[t] = Resolve(NewPromise, Img(t, c))

\* C2 as stated: once the fetch of a load() call on a non-data-URI Texture has
\* failed, the future that call returned is rejected with an error value
\* and isLoaded() is false, in that state and in every later one.
C2_FailedNeverLoaded ==
    \A t \in Textures : \A c \in Calls(t) :
        (path[t] = "net" /\ calls[t][c].pc = "failed") =>
            /\ complete(t, c) = Reject(NewPromise, ErrorLoadingTexture)
            /\ ~isLoaded(t)

\* C2 as amended: once the fetch of a load() call on a non-data-URI Texture
\* has failed, the future that call returned is rejected with the error
\* value, and isLoaded() is false in that state and in every later one in
\* which no other load() call on the same Texture has had its
\* decode-complete event handled.
C2_FailedNotLoadedByIt ==
    \A t \in Textures : \A c \in Calls(t) :
        (path[t] = "net" /\ calls[t][c].pc = "failed") =>
            /\ complete(t, c) = Reject(NewPromise, ErrorLoadingTexture)
            /\ isLoaded(t) => \E d \in Calls(t) \ {c} : DecodeHandled(t, d)

\* A failed load() call on a Texture that is not loaded, while a second
\* call has gone no further than waiting for its decode.
C2_Witness ==
    \E t \in Textures : \E c \in Calls(t) :
        /\ path[t] = "net"
        /\ calls[t][c].pc = "failed"
        /\ complete(t, c).state = "rejected"
        /\ ~isLoaded(t)
        /\ \E d \in Calls(t) \ {c} : calls[t][d].pc = "decoding"

\* C3: `loaded` and the future returned by load() settle alike: when the
\* returned future is resolved `loaded` is resolved with the same image, and
\* when the returned future is rejected `loaded` is rejected too.
C3_SameOutcome ==
    \A t \in Textures : \A c \in Calls(t) :
        /\ complete(t, c).state = "resolved" => loaded[t] = complete(t, c)
        /\ complete(t, c).state = "rejected" => loaded[t].state = "rejected"

\* C4: whenever isLoaded() is true or a future returned by load() is
\* resolved, asSprite() is not the all-null sprite of the constructor.
C4_RealSpriteOnceLoaded ==
    \A t \in Textures :
        (isLoaded(t) \/ \E c \in Calls(t) : complete(t, c).state = "resolved")
            => asSprite(t) # PlaceholderSprite

\* C5: until a decode-complete event has been handled for the Texture (so
\* also while fetching or decoding, and after a failed fetch), asSprite()
\* returns the placeholder sprite whose fields are all null.
C5_PlaceholderBeforeReady ==
    \A t \in Textures :
        (\A c \in Calls(t) : ~DecodeHandled(t, c)) => asSprite(t) = PlaceholderSprite

\* A Texture with one load() call failed and another one past its fetch and
\* waiting for the decode, still holding the placeholder.
C5_Witness ==
    \E t \in Textures :
        /\ \E c \in Calls(t) : calls[t][c].pc = "failed"
        /\ \E c \in Calls(t) : calls[t][c].pc = "decoding"
        /\ \A c \in Calls(t) : ~DecodeHandled(t, c)
        /\ asSprite(t) = PlaceholderSprite

\* C6: a Texture is never half loaded: isLoaded(), width/height at the
\* natural size, a real sprite and a resolved `loaded` hold all together or
\* not at all.
C6_NeverHalfLoaded ==
    \A t \in Textures :
        \/ /\ isLoaded(t)
           /\ SizeIsNatural(t)
           /\ asSprite(t) # PlaceholderSprite
           /\ loaded[t].state = "resolved"
        \/ /\ ~isLoaded(t)
           /\ ~SizeIsNatural(t)
           /\ asSprite(t) = PlaceholderSprite
           /\ loaded[t].state # "resolved"

\* ------------------------------------------------------------------ FrameStats properties

ZeroBaseFields ==
    [id |-> 0, delta |-> 0, fps |-> 0, alive |-> 0, killed |-> 0, ui |-> 0,
     update |-> 0, draw |-> 0]
ZeroDerivedFields == [remaining |-> 0, actorsTotal |-> 0, durationTotal |-> 0]

\* The fields of instance a as read in the next state.
BaseFieldsNext(a) == BaseFieldsIn(fsBase', actorObjs', durationObjs', a)
DerivedFieldsNext(a) == DerivedFieldsIn(fsBase', actorObjs', durationObjs', a)

\* In the next state, instances a and b share neither nested record.
SeparateNext(a, b) ==
    /\ fsBase'[a].actorStats # fsBase'[b].actorStats
    /\ fsBase'[a].durationStats # fsBase'[b].durationStats

\* Every instance but a reads the same in the next state as in this one.
OthersKeep(a) ==
    \A b \in FrameStatsIds \ {a} :
        /\ BaseFieldsNext(b) = BaseFields(b)
        /\ DerivedFieldsNext(b) = DerivedFields(b)

\* C7: after reset() with no argument the eight base fields of the receiver
\* are 0, and so are actors.remaining, actors.total and duration.total.
C7_ResetZeroes ==
    lastStat.op = "reset" =>
        /\ BaseFields(lastStat.target) = ZeroBaseFields
        /\ DerivedFields(lastStat.target) = ZeroDerivedFields

\* reset() has just run on an instance that held a non-zero field of its
\* own and a non-zero field in a nested record.
C7_Witness ==
    /\ lastStat.op = "reset"
    /\ lastStat.pre.id + lastStat.pre.delta + lastStat.pre.fps > 0
    /\ lastStat.pre.alive + lastStat.pre.killed + lastStat.pre.ui
         + lastStat.pre.update + lastStat.pre.draw > 0

\* C8: a.reset(other) leaves a with other's base and derived fields, leaves
\* other as it was, and keeps a and other (and their nested records)
\* distinct objects; and a setter write to one instance changes no other
\* instance.
C8_ResetCopies ==
    [][ /\ lastStat'.op = "resetOther" =>
             LET a == lastStat'.target
                 o == lastStat'.other
             IN  /\ BaseFieldsNext(a) = BaseFields(o)
                 /\ DerivedFieldsNext(a) = DerivedFields(o)
                 /\ BaseFieldsNext(o) = BaseFields(o)
                 /\ OthersKeep(a)
                 /\ a # o => SeparateNext(a, o)
        /\ lastStat'.op = "set" => OthersKeep(lastStat'.target)
      ]_vars

\* a.reset(other) has just run with other a different instance, and it
\* changed a to other's fields, not all zero.
C8_Witness ==
    /\ lastStat.op = "resetOther"
    /\ lastStat.target # lastStat.other
    /\ BaseFields(lastStat.target) # lastStat.pre
    /\ BaseFields(lastStat.target) = BaseFields(lastStat.other)
    /\ BaseFields(lastStat.target).alive > 0

\* C9: a.clone() returns a new instance, other than every existing one,
\* whose base and derived fields are a's at that time, a left as it was;
\* the two share no nested record, and any later write or reset of one
\* instance leaves every other instance unchanged.
C9_CloneIndependent ==
    [][ /\ lastStat'.op = "clone" =>
             LET n == lastStat'.target
                 a == lastStat'.other
             IN  /\ n \notin FrameStatsIds
                 /\ n \in FrameStatsIds'
                 /\ BaseFieldsNext(n) = BaseFields(a)
                 /\ DerivedFieldsNext(n) = DerivedFields(a)
                 /\ \A b \in FrameStatsIds :
                        /\ BaseFieldsNext(b) = BaseFields(b)
                        /\ SeparateNext(n, b)
        /\ lastStat'.op \in {"set", "setDerived", "reset", "resetOther"} =>
             OthersKeep(lastStat'.target)
      ]_vars

\* A clone was taken of an instance with a non-zero field, and a write to
\* the clone has since made it differ from the instance it was cloned from.
C9_Witness ==
    /\ fsCount > 2
    /\ lastStat.op = "set"
    /\ lastStat.target = fsCount
    /\ lastStat.pre # ZeroBaseFields
    /\ \E a \in FrameStatsIds \ {fsCount} :
           /\ BaseFields(a) = lastStat.pre
           /\ BaseFields(fsCount) # BaseFields(a)

\* C10: in every reachable state the derived values of every FrameStats
\* follow from its stored base fields: remaining = alive - killed,
\* actors.total = remaining + ui, duration.total = update + draw.
C10_DerivedFromBase ==
    \A a \in FrameStatsIds :
        /\ DerivedFields(a).remaining = BaseFields(a).alive - BaseFields(a).killed
        /\ DerivedFields(a).actorsTotal = DerivedFields(a).remaining + BaseFields(a).ui
        /\ DerivedFields(a).durationTotal = BaseFields(a).update + BaseFields(a).draw

\* An instance that got non-zero killed and ui counts by reset(other) or
\* clone(), not by a write of its own.
C10_Witness ==
    /\ lastStat.op \in {"resetOther", "clone"}
    /\ lastStat.target # lastStat.other
    /\ BaseFields(lastStat.target).killed > 0
    /\ BaseFields(lastStat.target).ui > 0

\* ------------------------------------------------------------------ Debug properties

\* The operation just performed is the main loop's rotation,
\* prevFrame.reset(currFrame).
Rotated ==
    /\ lastStat'.op = "resetOther"
    /\ lastStat'.target = prevFrame
    /\ lastStat'.other = currFrame

\* C11: Debug.stats holds the two slots currFrame and prevFrame, distinct
\* instances sharing no nested record for as long as the Debug lives; the
\* rotation prevFrame.reset(currFrame) gives prevFrame the values currFrame has
\* at that time, and every later write or reset of currFrame leaves
\* prevFrame's values as they are.
C11_TwoSlotsRotate ==
    [][ /\ {currFrame, prevFrame} \subseteq FrameStatsIds'
        /\ currFrame # prevFrame
        /\ SeparateNext(currFrame, prevFrame)
        /\ Rotated =>
             /\ BaseFieldsNext(prevFrame) = BaseFields(currFrame)
             /\ DerivedFieldsNext(prevFrame) = DerivedFields(currFrame)
             /\ BaseFieldsNext(currFrame) = BaseFields(currFrame)
        /\ lastStat'.target = currFrame =>
             /\ BaseFieldsNext(prevFrame) = BaseFields(prevFrame)
             /\ DerivedFieldsNext(prevFrame) = DerivedFields(prevFrame)
      ]_vars

\* currFrame has just been reset for the next frame while prevFrame holds
\* the non-zero values currFrame had before.
C11_Witness ==
    /\ lastStat.op = "reset"
    /\ lastStat.target = currFrame
    /\ lastStat.pre # ZeroBaseFields
    /\ BaseFields(prevFrame) = lastStat.pre
    /\ BaseFields(currFrame) = ZeroBaseFields

\* ------------------------------------------------------------------ atlas properties

\* The regions reserved so far, one per loadIntoAtlas call.
Regions == ManagerAfter(atlas).regions

\* Two regions with no point in common.
Disjoint(r, q) ==
    \/ r.x + r.w <= q.x
    \/ q.x + q.w <= r.x
    \/ r.y + r.h <= q.y
    \/ q.y + q.h <= r.y

\* C12: whatever images have been loaded through Texture.manager, the
\* regions reserved on one atlas surface are pairwise non-overlapping and
\* lie within the surface.
C12_RegionsDisjoint ==
    /\ \A i \in 1..Len(Regions) :
         Regions[i].surface # 0 =>
            /\ Regions[i].x >= 0 /\ Regions[i].y >= 0
            /\ Regions[i].x + Regions[i].w <= SurfaceSize
            /\ Regions[i].y + Regions[i].h <= SurfaceSize
    /\ \A i \in 1..Len(Regions) : \A j \in 1..Len(Regions) :
         (i # j /\ Regions[i].surface # 0 /\ Regions[i].surface = Regions[j].surface)
            => Disjoint(Regions[i], Regions[j])

\* Two images of non-zero size side by side on the first surface, and a
\* third one that had to go to a second surface.
C12_Witness ==
    /\ \E i \in 1..Len(Regions) : \E j \in 1..Len(Regions) :
         /\ i # j
         /\ Regions[i].surface = 1 /\ Regions[j].surface = 1
         /\ Regions[i].w * Regions[i].h > 0
         /\ Regions[j].w * Regions[j].h > 0
    /\ \E k \in 1..Len(Regions) : Regions[k].surface = 2

\* ------------------------------------------------------------------ Texture pipeline properties

\* The c-th load() call on Texture t is waiting for its fetch or its decode.
InFlight(t, c) == calls[t][c].pc \in {"fetching", "decoding"}

AtlasCalls(t) == {i \in 1..Len(atlas) : atlas[i].tex = t}

\* The load() calls on Texture t whose decode-complete event has been handled.
HandledCalls(t) == {c \in Calls(t) : DecodeHandled(t, c)}

C15_SettledOnce ==
    \A t \in Textures :
        /\ Cardinality(HandledCalls(t)) <= 1
        /\ \A c \in Calls(t) :
             complete(t, c).state = "rejected" => calls[t][c].pc = "failed"

\* The load() calls on Texture t whose fetch or decode is still under way.
CallsInFlight(t) == {c \in Calls(t) : InFlight(t, c)}

\* C16: a fetched Texture never has two resource fetches or image decodes
\* under way at once; load() on a Texture that is Fetching or Decoding
\* starts no second one.
C16_NoDuplicateRequests ==
    \A t \in Textures :
        path[t] = "net" => Cardinality(CallsInFlight(t)) <= 1

\* What a caller can observe of Texture t: isLoaded(), width, height,
\* `loaded`, and the state and future of each load() call.
Outcome(t) == <<isLoadedFlag[t], width[t], height[t], loaded[t], calls[t]>>

\* The outcome of a Texture on which load() was called once, read off its own
\* fetch and decode result alone.
OwnOutcome(t) ==
    /\ calls[t][1].pc = "done" =>
         /\ isLoaded(t) <=> path[t] = "net"
         /\ SizeIsNatural(t)
         /\ loaded[t] = Resolve(NewPromise, Img(t, 1))
         /\ complete(t, 1) = Resolve(NewPromise, Img(t, 1))
    /\ calls[t][1].pc = "failed" =>
         /\ ~isLoaded(t)
         /\ width[t] = Undefined /\ height[t] = Undefined
         /\ loaded[t] = NewPromise
         /\ complete(t, 1) = Reject(NewPromise, ErrorLoadingTexture)
    /\ calls[t][1].pc # "threw"

\* C17: with several Textures loading at once, each handled event changes
\* what is observable of one Texture only, and a Texture's outcome after its
\* load() is the one its own fetch and decode result gives, in whatever
\* order the events of the other Textures were handled.  Each handler is one
\* step: none starts before the one before it has finished.
C17_OutcomeIsOwn ==
    /\ [](\A t \in Textures : Len(calls[t]) = 1 => OwnOutcome(t))
    /\ [][\A t \in Textures : \A u \in Textures \ {t} :
             Outcome(t)' = Outcome(t) \/ Outcome(u)' = Outcome(u)]_vars

\* Two Textures, each loaded once and finished, the one constructed last
\* having had its decode handled first.
C17_Witness ==
    /\ Len(path) = 2
    /\ \A t \in Textures : Len(calls[t]) = 1 /\ calls[t][1].pc = "done"
    /\ Len(atlas) = 2
    /\ atlas[1].tex = 2
    /\ atlas[2].tex = 1

\* Call c of Texture t has its decode-complete event handled in this step.
DecodeHandledNow(t, c) ==
    /\ calls[t][c].pc = "decoding"
    /\ calls'[t][c].pc \in {"done", "threw"}

\* C18: isLoaded() is false on a Texture just constructed; it becomes true
\* only in a step that handles a decode-complete event of that Texture; and
\* once true it is true after every later step, whatever it is.
C18_IsLoadedMonotonic ==
    [][\A t \in Textures' :
          IF t \notin Textures
          THEN ~isLoadedFlag'[t]
          ELSE /\ isLoaded(t) => isLoadedFlag'[t]
               /\ (~isLoaded(t) /\ isLoadedFlag'[t]) =>
                    \E c \in Calls(t) : DecodeHandledNow(t, c)]_vars

\* A loaded Texture on which a later load() was called and has failed.
C18_Witness ==
    \E t \in Textures :
        /\ isLoaded(t)
        /\ \E c \in Calls(t) : \E d \in Calls(t) :
             /\ c < d
             /\ calls[t][c].pc = "done"
             /\ calls[t][d].pc = "failed"

====
